---------------------------- MODULE Spec2Model ----------------------------
(***************************************************************************)
(* Model of src/agent_executor.py: LangflowAgentExecutor, the A2A agent    *)
(* executor that forwards a task to a Langflow HTTP endpoint and publishes *)
(* the task's lifecycle events on the request's event queue.               *)
(*                                                                         *)
(* execute() is a coroutine.  Its code between two suspension points runs  *)
(* without interruption, so every action below is one such segment: it     *)
(* starts where the coroutine resumes (the start of execute(), the         *)
(* completion of an `await event_queue.enqueue_event(...)`, the return of  *)
(* the blocking requests.post) and runs to the next one.                   *)
(***************************************************************************)
EXTENDS Integers, Sequences, FiniteSets, TLC

----------------------------------------------------------------------------
(* Bounds of the model *)

\* longest endpoint URL handed to the constructor, in characters
MaxUrlLen == 1

\* most cancel() calls made on the executor
MaxCancels == 1

\* the request contexts (one execute() each) served by the one executor
Execs == {"r1", "r2"}

----------------------------------------------------------------------------
(* Python values: None and str (a str is its sequence of characters) *)

PyNone == [t |-> "None"]

PyStr(chars) == [t |-> "str", chars |-> chars]

\* the characters URLs are made of: the slash and one other character
UrlChars == {"h", "/"}

SeqsUpTo(S, n) == UNION {[1..k -> S] : k \in 0..n}

\* what the bootstrap can pass as langflow_url: os.getenv gives None or a str
UrlInputs == {PyNone} \cup {PyStr(s) : s \in SeqsUpTo(UrlChars, MaxUrlLen)}

\* what the bootstrap can pass as api_key
KeyInputs == {PyNone, PyStr(<<"k">>)}

\* Python truthiness of None / str: `not langflow_url`, `if self.api_key`
Truthy(v) == v.t = "str" /\ Len(v.chars) > 0

\* str.rstrip('/'): drop every trailing slash
RECURSIVE RStripSlash(_)
RStripSlash(s) ==
    IF Len(s) > 0 /\ s[Len(s)] = "/"
    THEN RStripSlash(SubSeq(s, 1, Len(s) - 1))
    ELSE s

----------------------------------------------------------------------------
(* JSON documents, as response.json() returns them: None, int, str, list,  *)
(* dict.  A dict is a function from its keys; the empty dict is <<>>.      *)

JNull == [t |-> "null"]

JNum(n) == [t |-> "num", n |-> n]

JStr(s) == [t |-> "str", s |-> s]

JList(items) == [t |-> "list", items |-> items]

JDict(fields) == [t |-> "dict", fields |-> fields]

EmptyDict == JDict(<<>>)

\* type(v).__name__
PyTypeName(v) ==
    CASE v.t = "null" -> "NoneType"
      [] v.t = "num"  -> "int"
      [] v.t = "str"  -> "str"
      [] v.t = "list" -> "list"
      [] v.t = "dict" -> "dict"

\* bool(v)
JTruthy(v) ==
    CASE v.t = "null" -> FALSE
      [] v.t = "num"  -> v.n # 0
      [] v.t = "str"  -> v.s # ""
      [] v.t = "list" -> Len(v.items) > 0
      [] v.t = "dict" -> DOMAIN v.fields # {}

\* the result of a Python expression: a value, or a raised exception with its str()
Val(v) == [ok |-> TRUE, v |-> v, err |-> ""]

Raised(msg) == [ok |-> FALSE, v |-> JNull, err |-> msg]

\* v.get(key, default): only a dict has .get
\* (the mutant subscripts, v[key]: a KeyError for an absent key)
DictGet_Subscript(v, key, default) ==
    IF v.t # "dict"
    THEN Raised("'" \o PyTypeName(v) \o "' object is not subscriptable")
    ELSE IF key \in DOMAIN v.fields THEN Val(v.fields[key]) ELSE Raised("'" \o key \o "'")

DictGet(v, key, default) ==
    IF v.t # "dict"
    THEN Raised("'" \o PyTypeName(v) \o "' object has no attribute 'get'")
    ELSE IF key \in DOMAIN v.fields THEN Val(v.fields[key]) ELSE Val(default)

\* len(v) > 0, for a truthy v: an int has no len()
LenPositive(v) ==
    IF v.t \in {"num", "null"}
    THEN Raised("object of type '" \o PyTypeName(v) \o "' has no len()")
    ELSE Val(v)

\* the first character of the JSON strings the model uses
FirstChar(s) ==
    CASE s = "8"    -> "8"
      [] s = "text" -> "t"
      [] OTHER      -> s

\* v[0], for a truthy v that has a len(): list element, str character, dict key 0
\* (the mutant takes the last element, v[-1])
Index0_Last(v) ==
    CASE v.t = "list" -> Val(v.items[Len(v.items)])
      [] v.t = "str"  -> Val(JStr(FirstChar(v.s)))
      [] OTHER        -> Raised("0")

Index0(v) ==
    CASE v.t = "list" -> Val(v.items[1])
      [] v.t = "str"  -> Val(JStr(FirstChar(v.s)))
      [] OTHER        -> Raised("0")

FallbackText == "No message text found in response"

ErrorExtracting(msg) == JStr("Error extracting response: " \o msg)

\* x = v.get(key, default); if x and len(x) > 0: x[0].  `empty` marks the falsy case.
FirstOf(v, key) ==
    LET got == DictGet(v, key, JList(<<>>)) IN
    IF ~got.ok THEN [got EXCEPT !.v = JNull] @@ [empty |-> FALSE]
    ELSE IF ~JTruthy(got.v) THEN Val(JNull) @@ [empty |-> TRUE]
    ELSE IF ~LenPositive(got.v).ok THEN LenPositive(got.v) @@ [empty |-> FALSE]
    ELSE Index0(got.v) @@ [empty |-> FALSE]

\* the text of first_result: .get("results", {}).get("message", {}).get("text", "")
LeafText(first_result) ==
    LET results == DictGet(first_result, "results", EmptyDict) IN
    IF ~results.ok THEN results
    ELSE LET message_data == DictGet(results.v, "message", EmptyDict) IN
         IF ~message_data.ok THEN message_data
         ELSE DictGet(message_data.v, "text", JStr(""))

\* _extract_message_text: the value it returns (whatever truthy `text` is, a
\* str or not), the fallback, or the "Error extracting response" string
ExtractMessageText(response) ==
    LET first_output == FirstOf(response, "outputs") IN
    IF ~first_output.ok THEN ErrorExtracting(first_output.err)
    ELSE IF first_output.empty THEN JStr(FallbackText)
    ELSE LET first_result == FirstOf(first_output.v, "outputs") IN
         IF ~first_result.ok THEN ErrorExtracting(first_result.err)
         ELSE IF first_result.empty THEN JStr(FallbackText)
         ELSE LET text == LeafText(first_result.v) IN
              IF ~text.ok THEN ErrorExtracting(text.err)
              ELSE IF JTruthy(text.v) THEN text.v
              ELSE JStr(FallbackText)

\* a well-formed reply whose leaf text is `text`
Reply(text) ==
    JDict([outputs |-> JList(<<
        JDict([outputs |-> JList(<<
            JDict([results |-> JDict([message |-> JDict([text |-> text])])])
        >>)])
    >>)])

\* the JSON bodies the remote engine answers with in the model
ResponseBodies ==
    { Reply(JStr("8")),                         \* the documented shape
      Reply(JStr("")),                          \* empty leaf text
      Reply(JNum(7)),                           \* leaf text of another type
      JDict([outputs |-> JList(<<>>)]),         \* {"outputs": []}
      JDict([outputs |-> JList(<<JNull>>)]),    \* {"outputs": [null]}
      JList(<<>>) }                             \* a body that is no object

\* The documents _extract_message_text is applied to on its own: every level
\* of the path outputs[0].outputs[0].results.message.text present and of the
\* expected type, absent, empty, or of another type, with and without other
\* fields and further array elements.
TextValues ==
    {JStr("8"), JStr("text"), JStr(""), JNum(7), JNum(0), JNull,
     JList(<<JStr("8")>>), JList(<<>>), EmptyDict}

MessageValues ==
    {JDict([text |-> t]) : t \in TextValues}
    \cup {JDict([text |-> t, sender |-> JStr("Machine")]) : t \in TextValues}
    \cup {EmptyDict, JDict([sender |-> JStr("Machine")]), JNull, JStr("8"), JNum(7),
          JList(<<>>)}

ResultsValues ==
    {JDict([message |-> m]) : m \in MessageValues}
    \cup {EmptyDict, JDict([other |-> JNum(1)]), JNull, JStr("8"), JList(<<>>)}

ResultValues ==
    {JDict([results |-> r]) : r \in ResultsValues}
    \cup {JDict([results |-> JDict([message |-> JDict([text |-> JStr("8")])]),
                 component |-> JStr("ChatOutput")])}
    \cup {EmptyDict, JDict([component |-> JStr("ChatOutput")]), JNull, JStr("8"),
          JNum(7), JList(<<>>)}

\* arrays with one element, or with a further element after it
ArraysOf(first, further) ==
    {JList(<<x>>) : x \in first} \cup {JList(<<x, y>>) : x \in first, y \in further}

NotAnArray == {JList(<<>>), JNull, JNum(7), JNum(0), JStr("8"), JStr(""), EmptyDict}

InnerValues == ArraysOf(ResultValues, {JNull}) \cup NotAnArray

GroupValues ==
    {JDict([outputs |-> i]) : i \in InnerValues}
    \cup {JDict([outputs |-> JList(<<JDict([results |-> JDict([message |->
                     JDict([text |-> JStr("8")])])])>>), inputs |-> EmptyDict])}
    \cup {EmptyDict, JDict([inputs |-> EmptyDict]), JNull, JStr("8"), JNum(7),
          JList(<<>>)}

OuterValues == ArraysOf(GroupValues, {JNull, EmptyDict}) \cup NotAnArray

Docs ==
    {JDict([outputs |-> o]) : o \in OuterValues}
    \cup {JDict([outputs |-> o, session_id |-> JStr("s")]) : o \in OuterValues}
    \cup {EmptyDict, JDict([session_id |-> JStr("s")]), JNull, JStr("8"), JNum(7),
          JList(<<>>)}

\* no call of _extract_message_text has returned yet
NotExtracted == [t |-> "none"]

----------------------------------------------------------------------------
(* The state *)

VARIABLES
    inst,          \* the executor object: "unbuilt", "built", "config_error"
                   \* (__init__ raised) or "startup_error" (the bootstrap raised)
    ctor_arg,      \* the langflow_url argument __init__ was called with
    langflow_url,  \* self.langflow_url
    api_key,       \* self.api_key
    pc,            \* per request: where its execute() coroutine stands
    message,       \* per request: whether context.message is set
    query,         \* per request: context.get_user_input()
    task,          \* per request: the local `task` of execute()
    events,        \* per request: what its event queue has received, in order
    exc,           \* per request: str() of the exception last raised in execute()
    posts,         \* per request: the HTTP requests _call_langflow has sent
    response,      \* per request: the HTTP response requests.post returned
    raisedAt,      \* per request: the steps of execute() that raised
    cancels,       \* the outcomes of the cancel() calls made, in order
    doc,           \* the argument of a call of _extract_message_text on its own
    extracted      \* what that call returned

vars == <<inst, ctor_arg, langflow_url, api_key, pc, message, query, task,
          events, exc, posts, response, raisedAt, cancels, doc, extracted>>

extractVars == <<doc, extracted>>

selfVars == <<inst, ctor_arg, langflow_url, api_key>>

\* the user inputs of the model
Queries == {"Calculate 4*4*(33/22)+12-20"}

NoTask == [id |-> "", contextId |-> "", isNew |-> FALSE]

\* context.current_task when the task store already holds the task
ExistingTask(e) == [id |-> "task-" \o e, contextId |-> "ctx-" \o e, isNew |-> FALSE]

\* new_task(context.message): a fresh id, the message's context id
NewTask(e) == [id |-> "new-" \o e, contextId |-> "ctx-" \o e, isNew |-> TRUE]

NoResponse == [kind |-> "none", status |-> 0, body |-> JNull]

NotJson == [t |-> "invalid"]

\* what requests.post can come back with: no connection, or a status and a body
Responses ==
    {[kind |-> "connection_error", status |-> 0, body |-> NotJson]}
    \cup {[kind |-> "http", status |-> st, body |-> NotJson] : st \in {200, 304, 404, 500}}
    \cup {[kind |-> "http", status |-> 200, body |-> b] : b \in ResponseBodies}
    \cup {[kind |-> "http", status |-> 304, body |-> Reply(JStr("8"))]}

----------------------------------------------------------------------------
(* The events execute() builds *)

\* the Task object of line 36, as an event of the queue
TaskEvent(t) ==
    [kind |-> "task", state |-> "submitted", final |-> FALSE,
     taskId |-> t.id, contextId |-> t.contextId, text |-> ""]

\* TaskStatusUpdateEvent(status=TaskStatus(state, message), final, contextId, taskId)
StatusEvent(state, text, final, t) ==
    [kind |-> "status", state |-> state, final |-> final,
     taskId |-> t.id, contextId |-> t.contextId, text |-> text]

\* (the mutant marks the working event final)
WorkingEvent_Final(t) ==
    StatusEvent("working", "Processing your request with Langflow...", TRUE, t)

WorkingEvent(t) ==
    StatusEvent("working", "Processing your request with Langflow...", FALSE, t)

\* (the mutant leaves the completed event non-final)
CompletedEvent_NotFinal(t) == StatusEvent("completed", "", FALSE, t)

CompletedEvent(t) == StatusEvent("completed", "", TRUE, t)

\* (the mutant drops str(e) from the message)
FailedEvent_NoDetail(t, e_str) ==
    StatusEvent("failed", "Error processing request", TRUE, t)

FailedEvent(t, e_str) ==
    StatusEvent("failed", "Error processing request: " \o e_str, TRUE, t)

\* TaskArtifactUpdateEvent(artifact=new_text_artifact(text=...), contextId, taskId)
ArtifactEvent(text, t) ==
    [kind |-> "artifact", state |-> "none", final |-> FALSE,
     taskId |-> t.id, contextId |-> t.contextId, text |-> text]

----------------------------------------------------------------------------
(* __init__ *)

\* `if not langflow_url: raise ValueError(...)`
\* (the mutant tests `langflow_url is None`)
InitRaises_NoneOnly(url) == url = PyNone

InitRaises(url) == ~Truthy(url)

\* __init__ stores the URL without its trailing slashes, and the key
InitStores(url, key) ==
    /\ inst' = "built"
    /\ langflow_url' = PyStr(RStripSlash(url.chars))
    /\ api_key' = key

\* LangflowAgentExecutor(langflow_url, api_key), called by any code
Construct ==
    /\ inst = "unbuilt"
    /\ \E url \in UrlInputs, key \in KeyInputs :
        /\ ctor_arg' = url
        /\ IF InitRaises(url)
           THEN /\ inst' = "config_error"
                /\ UNCHANGED <<langflow_url, api_key>>
           ELSE InitStores(url, key)
    /\ UNCHANGED <<extractVars, pc, message, query, task, events, exc, posts,
                   response, raisedAt, cancels>>

\* the bootstrap module: LANGFLOW_URL and LANGFLOW_API_KEY from the environment,
\* `if not LANGFLOW_URL: raise ValueError(...)`, then the constructor
Main ==
    /\ inst = "unbuilt"
    /\ \E url \in UrlInputs, key \in KeyInputs :
        IF ~Truthy(url)
        THEN /\ inst' = "startup_error"
             /\ UNCHANGED <<ctor_arg, langflow_url, api_key>>
        ELSE /\ ctor_arg' = url
             /\ IF InitRaises(url)
                THEN /\ inst' = "config_error"
                     /\ UNCHANGED <<langflow_url, api_key>>
                ELSE InitStores(url, key)
    /\ UNCHANGED <<extractVars, pc, message, query, task, events, exc, posts,
                   response, raisedAt, cancels>>

----------------------------------------------------------------------------
(* _call_langflow *)

\* the request of line 136: url, json payload, headers, params
CallRequest(input_value, session_id) ==
    [url |-> langflow_url,
     input_value |-> input_value, output_type |-> "chat", input_type |-> "chat",
     authorization |-> IF Truthy(api_key) THEN api_key ELSE PyNone,
     session_id |-> IF session_id # "" THEN session_id ELSE ""]

\* the requests execute() has sent once _call_langflow has posted `req`
\* (the mutant posts again: a retry)
PostOnce_Twice(sent, req) == sent \o <<req, req>>

PostOnce(sent, req) == Append(sent, req)

\* response.raise_for_status(): HTTPError for a 4xx or 5xx status
RaiseForStatus(r) == r.status >= 400 /\ r.status < 600

\* what _call_langflow returns or raises when requests.post came back with r
CallResult(r) ==
    IF r.kind = "connection_error" THEN Raised("ConnectionError")
    ELSE IF RaiseForStatus(r) THEN Raised("HTTPError " \o ToString(r.status))
    ELSE IF r.body = NotJson THEN Raised("JSONDecodeError")
    ELSE Val(r.body)

----------------------------------------------------------------------------
(* execute() *)

\* requests.post is a blocking call made on the event loop's thread: while one
\* execute() is inside it, no other coroutine of the loop runs
LoopFree == \A o \in Execs : pc[o] # "waiting"

Ended(e) == pc[e] \in {"returned", "raised"}

\* event_queue.enqueue_event(ev) completes
\* (the mutant has one queue for every task: each event reaches all of them)
Enqueue_Shared(e, ev) == events' = [o \in Execs |-> Append(events[o], ev)]

Enqueue(e, ev) == events' = [events EXCEPT ![e] = Append(@, ev)]

\* a step of execute() raises an exception whose str() is e_str
Raise(e, step, e_str) ==
    /\ exc' = [exc EXCEPT ![e] = e_str]
    /\ raisedAt' = [raisedAt EXCEPT ![e] = @ \cup {step}]

QueueError == "enqueue_event failed"

\* lines 28-35: read the input and the current task, check the message,
\* create the task when there is none; up to the first await
Execute(e) ==
    /\ inst = "built"
    /\ LoopFree
    /\ pc[e] = "idle"
    /\ \E has_message \in BOOLEAN, has_task \in BOOLEAN, q \in Queries :
        /\ message' = [message EXCEPT ![e] = has_message]
        /\ query' = [query EXCEPT ![e] = IF has_message THEN q ELSE ""]
        /\ IF ~has_message
           THEN /\ task' = [task EXCEPT ![e] =
                               IF has_task THEN ExistingTask(e) ELSE NoTask]
                /\ Raise(e, "message", "No message in context")
                /\ pc' = [pc EXCEPT ![e] = "raised"]
           ELSE /\ task' = [task EXCEPT ![e] =
                               IF has_task THEN ExistingTask(e) ELSE NewTask(e)]
                /\ pc' = [pc EXCEPT ![e] =
                               IF has_task THEN "pub_working" ELSE "pub_task"]
                /\ UNCHANGED <<exc, raisedAt>>
    /\ UNCHANGED <<extractVars, selfVars, events, posts, response, cancels>>

\* (the mutant creates the task and never publishes it)
PublishTask_NoEnqueue(e) ==
    /\ LoopFree
    /\ pc[e] = "pub_task"
    /\ pc' = [pc EXCEPT ![e] = "pub_working"]
    /\ UNCHANGED <<extractVars, selfVars, message, query, task, events, exc, posts,
                   response, raisedAt, cancels>>

\* line 36: await event_queue.enqueue_event(task), outside the try
PublishTask(e) ==
    /\ LoopFree
    /\ pc[e] = "pub_task"
    /\ \/ /\ Enqueue(e, TaskEvent(task[e]))
          /\ pc' = [pc EXCEPT ![e] = "pub_working"]
          /\ UNCHANGED <<exc, raisedAt>>
       \/ /\ Raise(e, "pub_task", QueueError)
          /\ pc' = [pc EXCEPT ![e] = "raised"]
          /\ UNCHANGED events
    /\ UNCHANGED <<extractVars, selfVars, message, query, task, posts, response, cancels>>

\* (the mutant has the working event outside the try: its raise leaves execute())
PublishWorking_OutsideTry(e) ==
    /\ LoopFree
    /\ pc[e] = "pub_working"
    /\ \/ /\ Enqueue(e, WorkingEvent(task[e]))
          /\ posts' = [posts EXCEPT ![e] =
                          PostOnce(@, CallRequest(query[e], task[e].contextId))]
          /\ pc' = [pc EXCEPT ![e] = "waiting"]
          /\ UNCHANGED <<exc, raisedAt>>
       \/ /\ Raise(e, "pub_working", QueueError)
          /\ pc' = [pc EXCEPT ![e] = "raised"]
          /\ UNCHANGED <<events, posts>>
    /\ UNCHANGED <<extractVars, selfVars, message, query, task, response, cancels>>

\* lines 40-58: the working event, then straight into _call_langflow up to
\* requests.post; a raise goes to the except clause of line 86
PublishWorking(e) ==
    /\ LoopFree
    /\ pc[e] = "pub_working"
    /\ \/ /\ Enqueue(e, WorkingEvent(task[e]))
          /\ posts' = [posts EXCEPT ![e] =
                          PostOnce(@, CallRequest(query[e], task[e].contextId))]
          /\ pc' = [pc EXCEPT ![e] = "waiting"]
          /\ UNCHANGED <<exc, raisedAt>>
       \/ /\ Raise(e, "pub_working", QueueError)
          /\ pc' = [pc EXCEPT ![e] = "pub_failed"]
          /\ UNCHANGED <<events, posts>>
    /\ UNCHANGED <<extractVars, selfVars, message, query, task, response, cancels>>

\* new_text_artifact(text=response_text): the artifact's text part takes a str
ArtifactRaises(response_text) == response_text.t # "str"

\* lines 136-149 and 58-73: requests.post comes back; _call_langflow returns or
\* raises; the text is extracted and the artifact built, up to the next await
HttpResponse(e) ==
    /\ pc[e] = "waiting"
    /\ \E r \in Responses :
        /\ response' = [response EXCEPT ![e] = r]
        /\ IF ~CallResult(r).ok
           THEN /\ Raise(e, "client", CallResult(r).err)
                /\ pc' = [pc EXCEPT ![e] = "pub_failed"]
           ELSE IF ArtifactRaises(ExtractMessageText(CallResult(r).v))
           THEN /\ Raise(e, "artifact", "ValidationError")
                /\ pc' = [pc EXCEPT ![e] = "pub_failed"]
           ELSE /\ pc' = [pc EXCEPT ![e] = "pub_artifact"]
                /\ UNCHANGED <<exc, raisedAt>>
    /\ UNCHANGED <<extractVars, selfVars, message, query, task, events, posts, cancels>>

\* the local response_text of execute()
ResponseText(e) == ExtractMessageText(CallResult(response[e]).v)

\* lines 64-74: the artifact event
PublishArtifact(e) ==
    /\ LoopFree
    /\ pc[e] = "pub_artifact"
    /\ \/ /\ Enqueue(e, ArtifactEvent(ResponseText(e).s, task[e]))
          /\ pc' = [pc EXCEPT ![e] = "pub_completed"]
          /\ UNCHANGED <<exc, raisedAt>>
       \/ /\ Raise(e, "pub_artifact", QueueError)
          /\ pc' = [pc EXCEPT ![e] = "pub_failed"]
          /\ UNCHANGED events
    /\ UNCHANGED <<extractVars, selfVars, message, query, task, posts, response, cancels>>

\* lines 77-84: the completed event, the last statement of the try
PublishCompleted(e) ==
    /\ LoopFree
    /\ pc[e] = "pub_completed"
    /\ \/ /\ Enqueue(e, CompletedEvent(task[e]))
          /\ pc' = [pc EXCEPT ![e] = "returned"]
          /\ UNCHANGED <<exc, raisedAt>>
       \/ /\ Raise(e, "pub_completed", QueueError)
          /\ pc' = [pc EXCEPT ![e] = "pub_failed"]
          /\ UNCHANGED events
    /\ UNCHANGED <<extractVars, selfVars, message, query, task, posts, response, cancels>>

\* lines 86-104: the except clause publishes the failed event; nothing
\* encloses it, so its own raise leaves execute()
PublishFailed(e) ==
    /\ LoopFree
    /\ pc[e] = "pub_failed"
    /\ \/ /\ Enqueue(e, FailedEvent(task[e], exc[e]))
          /\ pc' = [pc EXCEPT ![e] = "returned"]
          /\ UNCHANGED <<exc, raisedAt>>
       \/ /\ Raise(e, "pub_failed", QueueError)
          /\ pc' = [pc EXCEPT ![e] = "raised"]
          /\ UNCHANGED events
    /\ UNCHANGED <<extractVars, selfVars, message, query, task, posts, response, cancels>>

----------------------------------------------------------------------------
(* cancel() *)

\* line 108: raise Exception("Cancel not supported for Langflow agent")
\* (the mutant publishes a canceled status and returns)
Cancel_Publishes(e) ==
    /\ inst = "built"
    /\ LoopFree
    /\ Len(cancels) < MaxCancels
    /\ cancels' = Append(cancels, "returned")
    /\ Enqueue(e, StatusEvent("canceled", "", TRUE, task[e]))
    /\ UNCHANGED <<extractVars, selfVars, pc, message, query, task, exc, posts, response,
                   raisedAt>>

Cancel(e) ==
    /\ inst = "built"
    /\ LoopFree
    /\ Len(cancels) < MaxCancels
    /\ cancels' = Append(cancels, "Cancel not supported for Langflow agent")
    /\ UNCHANGED <<extractVars, selfVars, pc, message, query, task, events, exc, posts,
                   response, raisedAt>>

----------------------------------------------------------------------------
(* The specification *)

Init ==
    /\ inst = "unbuilt"
    /\ ctor_arg = PyNone
    /\ langflow_url = PyNone
    /\ api_key = PyNone
    /\ pc = [e \in Execs |-> "idle"]
    /\ message = [e \in Execs |-> FALSE]
    /\ query = [e \in Execs |-> ""]
    /\ task = [e \in Execs |-> NoTask]
    /\ events = [e \in Execs |-> <<>>]
    /\ exc = [e \in Execs |-> ""]
    /\ posts = [e \in Execs |-> <<>>]
    /\ response = [e \in Execs |-> NoResponse]
    /\ raisedAt = [e \in Execs |-> {}]
    /\ cancels = <<>>
    /\ doc = JNull
    /\ extracted = NotExtracted

\* the steps of one execute() coroutine that the event loop schedules
ExecutorStep(e) ==
    \/ Execute(e)
    \/ PublishTask(e)
    \/ PublishWorking(e)
    \/ PublishArtifact(e)
    \/ PublishCompleted(e)
    \/ PublishFailed(e)

Next ==
    \/ Construct
    \/ Main
    \/ \E e \in Execs : ExecutorStep(e)
    \/ \E e \in Execs : HttpResponse(e)
    \/ \E e \in Execs : Cancel(e)

Spec == Init /\ [][Next]_vars

\* the event loop runs every coroutine that is ready, and the network is at
\* its best: every request posted comes back, with an answer or an error
\* (requests.post is called without a timeout, so the code does not ensure it)
FairSpec ==
    /\ Spec
    /\ \A e \in Execs : WF_vars(ExecutorStep(e))
    /\ \A e \in Execs : WF_vars(HttpResponse(e))

----------------------------------------------------------------------------
(* _extract_message_text on its own: any document, then the call *)

ExtractInit ==
    /\ inst = "built"
    /\ ctor_arg = PyStr(<<"h">>)
    /\ langflow_url = PyStr(<<"h">>)
    /\ api_key = PyNone
    /\ pc = [e \in Execs |-> "idle"]
    /\ message = [e \in Execs |-> FALSE]
    /\ query = [e \in Execs |-> ""]
    /\ task = [e \in Execs |-> NoTask]
    /\ events = [e \in Execs |-> <<>>]
    /\ exc = [e \in Execs |-> ""]
    /\ posts = [e \in Execs |-> <<>>]
    /\ response = [e \in Execs |-> NoResponse]
    /\ raisedAt = [e \in Execs |-> {}]
    /\ cancels = <<>>
    /\ doc \in Docs
    /\ extracted = NotExtracted

\* self._extract_message_text(doc) returns
Extract ==
    /\ extracted = NotExtracted
    /\ extracted' = ExtractMessageText(doc)
    /\ UNCHANGED <<selfVars, pc, message, query, task, events, exc, posts,
                   response, raisedAt, cancels, doc>>

ExtractSpec == ExtractInit /\ [][Extract]_vars

----------------------------------------------------------------------------
(* What an execution has published *)

\* an event's kind, state, final flag and text
Shape(ev) == <<ev.kind, ev.state, ev.final, ev.text>>

Shapes(e) == [i \in DOMAIN events[e] |-> Shape(events[e][i])]

\* every event of the execution carries the task's id and context id
IdsMatch(e) ==
    \A i \in DOMAIN events[e] :
        /\ events[e][i].taskId = task[e].id
        /\ events[e][i].contextId = task[e].contextId

WorkingShape == <<"status", "working", FALSE, "Processing your request with Langflow...">>

CompletedShape == <<"status", "completed", TRUE, "">>

ArtifactShape(text) == <<"artifact", "none", FALSE, text>>

FailedShape(e_str) == <<"status", "failed", TRUE, "Error processing request: " \o e_str>>

\* the Task object is published first exactly when execute() created the task
TaskShapes(e) ==
    IF task[e].isNew THEN << <<"task", "submitted", FALSE, "">> >> ELSE <<>>

FinalEvents(e) == {i \in DOMAIN events[e] : events[e][i].final}

IsTerminal(ev) ==
    ev.final /\ ev.kind = "status" /\ ev.state \in {"completed", "failed"}

HasTerminal(e) == \E i \in DOMAIN events[e] : IsTerminal(events[e][i])

HasArtifact(e) == \E i \in DOMAIN events[e] : events[e][i].kind = "artifact"

\* _call_langflow returned a document / raised
ClientSucceeded(e) == response[e] # NoResponse /\ CallResult(response[e]).ok

ClientRaised(e) == response[e] # NoResponse /\ ~CallResult(response[e]).ok

----------------------------------------------------------------------------
(* C1: when _call_langflow returns successfully, the finished execution has *)
(* published exactly working (not final), artifact, completed (final), and  *)
(* nothing else, each with the task's ids -- with or without a current task *)

----------------------------------------------------------------------------
(* C2: when _call_langflow raises, the finished execution has published     *)
(* exactly working (not final) and failed (final), no artifact, and the     *)
(* failed message contains str() of the error                               *)

----------------------------------------------------------------------------
(* C3: every finished execution has published exactly one final event, a    *)
(* status event with state completed or failed                              *)

\* C3 as stated
C3_ExactlyOneFinal ==
    \A e \in Execs :
        Ended(e) =>
            /\ Cardinality(FinalEvents(e)) = 1
            /\ \A i \in FinalEvents(e) : IsTerminal(events[e][i])

----------------------------------------------------------------------------
(* C4: execute() never raises to its caller; it returns normally after a    *)
(* terminal event has been published, whatever fails on its path            *)

\* C4 as stated
C4_NeverRaises ==
    \A e \in Execs :
        /\ pc[e] # "raised"
        /\ pc[e] = "returned" => HasTerminal(e)

----------------------------------------------------------------------------
(* C5: with no inbound message, execute() publishes a final failed status   *)
(* event and returns normally                                               *)

\* C5 as stated
C5_MissingMessageFailed ==
    \A e \in Execs :
        (Ended(e) /\ ~message[e]) =>
            /\ pc[e] = "returned"
            /\ Len(events[e]) > 0
            /\ events[e][Len(events[e])].kind = "status"
            /\ events[e][Len(events[e])].state = "failed"
            /\ events[e][Len(events[e])].final

----------------------------------------------------------------------------
(* C6: every started execution eventually publishes a terminal event        *)
(* (completed or failed, final), under fair scheduling of its own steps     *)

\* C6 as stated
C6_EventuallyTerminal ==
    \A e \in Execs : (pc[e] # "idle") ~> HasTerminal(e)

----------------------------------------------------------------------------
(* C7: in every execution _call_langflow posts exactly once, whatever       *)
(* failure occurs; there is no retry                                        *)

HasWorking(e) ==
    \E i \in DOMAIN events[e] : Shape(events[e][i]) = WorkingShape

\* C7 as stated
C7_ExactlyOneCall ==
    \A e \in Execs : Ended(e) => Len(posts[e]) = 1

\* C7 amended: an execution never posts more than once, and a finished
\* execution has posted exactly once when it published the working event and
\* not at all when it stopped before (no message, or the Task or working
\* publish raised)
C7_AtMostOneCall ==
    \A e \in Execs :
        /\ Len(posts[e]) <= 1
        /\ Ended(e) => (Len(posts[e]) = 1 <=> HasWorking(e))
        /\ Ended(e) =>
               (Len(posts[e]) = 0 <=>
                   raisedAt[e] \cap {"message", "pub_task", "pub_working"} # {})

\* a finished execution whose one call raised and was not repeated
C7_Witness ==
    \E e \in Execs :
        /\ Ended(e) /\ ClientRaised(e)
        /\ Len(posts[e]) = 1
        /\ posts[e][1].input_value = query[e]

----------------------------------------------------------------------------
(* C8: when the publish of the working event raises, execute() still        *)
(* publishes exactly one terminal event, a final failed status; no client   *)
(* call and no artifact event occur in that run                             *)

----------------------------------------------------------------------------
(* C9: cancel() always raises, for every context and in every state of an   *)
(* execution, and never publishes an event                                  *)

\* C9: every step that is a cancel() call records the raise and leaves every
\* event queue, and every execution, as it was
C9_CancelAlwaysRaises ==
    [][ cancels' # cancels =>
            /\ cancels'[Len(cancels')] = "Cancel not supported for Langflow agent"
            /\ events' = events
            /\ pc' = pc
      ]_vars

\* cancel() has been called while one execution was between two publishes and
\* another had finished
C9_Witness ==
    /\ cancels # <<>>
    /\ \E e \in Execs : pc[e] = "pub_completed"
    /\ \E e \in Execs : Ended(e)

----------------------------------------------------------------------------
(* C10: constructing the executor with a None or empty URL always fails     *)
(* with a configuration error: no instance exists, nothing is executed      *)

\* C10: once construction was attempted with None or "", there is no executor
\* and no request is ever executed
C10_EmptyUrlRejected ==
    (inst # "unbuilt" /\ ~Truthy(ctor_arg)) =>
        /\ inst \in {"config_error", "startup_error"}
        /\ \A e \in Execs : pc[e] = "idle" /\ events[e] = <<>> /\ posts[e] = <<>>

\* the constructor was called with the empty string and raised
C10_Witness ==
    /\ inst = "config_error"
    /\ ctor_arg = PyStr(<<>>)

----------------------------------------------------------------------------
(* The path outputs[0].outputs[0].results.message.text of a document, read  *)
(* off the document itself: a key of a mapping, the first element of an     *)
(* array                                                                    *)

HasKey(v, key) == v.t = "dict" /\ key \in DOMAIN v.fields

NonEmptyArray(v) == v.t = "list" /\ Len(v.items) > 0

EmptyArray(v) == v.t = "list" /\ Len(v.items) = 0

\* outputs[0] and outputs[0].outputs[0], where they exist
GroupOf(d) == d.fields["outputs"].items[1]

ResultOf(d) == GroupOf(d).fields["outputs"].items[1]

HasGroup(d) == HasKey(d, "outputs") /\ NonEmptyArray(d.fields["outputs"])

HasResult(d) ==
    /\ HasGroup(d)
    /\ HasKey(GroupOf(d), "outputs")
    /\ NonEmptyArray(GroupOf(d).fields["outputs"])

HasLeaf(d) ==
    /\ HasResult(d)
    /\ HasKey(ResultOf(d), "results")
    /\ HasKey(ResultOf(d).fields["results"], "message")
    /\ HasKey(ResultOf(d).fields["results"].fields["message"], "text")

LeafOf(d) == ResultOf(d).fields["results"].fields["message"].fields["text"]

\* results.message.text is missing from the mapping r: a key of the chain is
\* absent, or the text is the empty string
LeafMissingIn(r) ==
    \/ ~HasKey(r, "results")
    \/ /\ r.fields["results"].t = "dict"
       /\ \/ ~HasKey(r.fields["results"], "message")
          \/ /\ r.fields["results"].fields["message"].t = "dict"
             /\ \/ ~HasKey(r.fields["results"].fields["message"], "text")
                \/ r.fields["results"].fields["message"].fields["text"] = JStr("")

\* `outputs`, `outputs[0].outputs` or the leaf text is missing from the
\* document d, whose levels above the missing one are the mappings and arrays
\* of the documented shape
Missing(d) ==
    /\ d.t = "dict"
    /\ \/ ~HasKey(d, "outputs")
       \/ EmptyArray(d.fields["outputs"])
       \/ /\ HasGroup(d)
          /\ GroupOf(d).t = "dict"
          /\ \/ ~HasKey(GroupOf(d), "outputs")
             \/ EmptyArray(GroupOf(d).fields["outputs"])
             \/ /\ HasResult(d)
                /\ ResultOf(d).t = "dict"
                /\ LeafMissingIn(ResultOf(d))

----------------------------------------------------------------------------
(* C11: for every document whose outputs[0].outputs[0].results.message.text *)
(* is a non-empty string S, _extract_message_text returns exactly S,        *)
(* whatever other fields or further array elements the document has         *)

\* C11: the call on a document whose leaf text is a non-empty string returns
\* that string
C11_ExtractsLeafText ==
    (extracted # NotExtracted /\ HasLeaf(doc)
        /\ LeafOf(doc).t = "str" /\ LeafOf(doc).s # "")
    => extracted = LeafOf(doc)

\* the call returned the leaf text of a document with another top-level field
\* and a further element in the outer array
C11_Witness ==
    /\ extracted = JStr("text")
    /\ HasLeaf(doc)
    /\ "session_id" \in DOMAIN doc.fields
    /\ Len(doc.fields["outputs"].items) = 2

----------------------------------------------------------------------------
(* C12: for every document in which outputs, outputs[0].outputs or the leaf *)
(* text is missing (an empty array, an absent results or message mapping,   *)
(* an empty text included), _extract_message_text returns exactly           *)
(* "No message text found in response" and does not raise                   *)

----------------------------------------------------------------------------
(* C13: extraction is never a task failure: for every JSON document the     *)
(* client call returns -- well formed, with missing fields, or with values  *)
(* of an unexpected type at any level, the leaf text included -- the        *)
(* execution publishes an artifact whose text is the extractor's result and *)
(* ends completed, never failed                                             *)

PublishSteps == {"pub_task", "pub_working", "pub_artifact", "pub_completed", "pub_failed"}

\* C13 as stated, for the executions in which no publish raised
C13_ExtractionNeverFails ==
    \A e \in Execs :
        (Ended(e) /\ ClientSucceeded(e) /\ raisedAt[e] \cap PublishSteps = {}) =>
            /\ \E i \in DOMAIN events[e] :
                   /\ events[e][i].kind = "artifact"
                   /\ JStr(events[e][i].text) = ResponseText(e)
            /\ Shape(events[e][Len(events[e])]) = CompletedShape
            /\ \A i \in DOMAIN events[e] : events[e][i].state # "failed"

----------------------------------------------------------------------------
(* C14: every HTTP response whose status is outside 200..299 (1xx, 3xx, 4xx *)
(* or 5xx) makes the client call fail with a transport error: the execution *)
(* ends failed, the message describes the error, no artifact is published   *)

NonSuccessStatus(r) == r.kind = "http" /\ ~(r.status >= 200 /\ r.status <= 299)

\* C14 as stated, for the executions in which no publish raised, and asking
\* of the error only that the client call raised one
C14_NonSuccessStatusFails ==
    \A e \in Execs :
        (Ended(e) /\ NonSuccessStatus(response[e])
              /\ raisedAt[e] \cap PublishSteps = {}) =>
            /\ "client" \in raisedAt[e]
            /\ events[e][Len(events[e])].kind = "status"
            /\ events[e][Len(events[e])].state = "failed"
            /\ events[e][Len(events[e])].final
            /\ ~HasArtifact(e)

----------------------------------------------------------------------------
(* C15: the network call is the only point of execute() at which another    *)
(* execution can be interleaved; publishing an event and every other step   *)
(* do not suspend                                                           *)

\* execute() has been entered and has neither returned nor raised
InProgress(e) == pc[e] \notin {"idle", "returned", "raised"}

\* C15 as stated: of two executions in progress at once, one is at its
\* network call, the only point at which the other could have run
C15_OnlyNetworkCallYields ==
    \A e \in Execs : \A o \in Execs \ {e} :
        (InProgress(e) /\ InProgress(o)) =>
            (pc[e] = "waiting" \/ pc[o] = "waiting")

----------------------------------------------------------------------------
(* C16: executions for different tasks are independent under every          *)
(* interleaving: the events an execution publishes, the ids on them and the *)
(* session id it sends are what they are when it runs alone, and no         *)
(* execution writes the orchestrator's state or another task's              *)

\* how far the execution has come, read from its own locals alone
PastTask(e) ==
    task[e].isNew /\ pc[e] \notin {"idle", "pub_task"} /\ "pub_task" \notin raisedAt[e]

PastWorking(e) == pc[e] = "waiting" \/ response[e] # NoResponse

PastArtifact(e) ==
    \/ pc[e] = "pub_completed"
    \/ "pub_completed" \in raisedAt[e]
    \/ pc[e] = "returned" /\ raisedAt[e] = {}

PastCompleted(e) == pc[e] = "returned" /\ raisedAt[e] = {}

PastFailed(e) == pc[e] = "returned" /\ raisedAt[e] # {}

\* the events the execution has published when it runs alone
AloneShapes(e) ==
    (IF PastTask(e) THEN << <<"task", "submitted", FALSE, "">> >> ELSE <<>>)
    \o (IF PastWorking(e) THEN <<WorkingShape>> ELSE <<>>)
    \o (IF PastArtifact(e) THEN <<ArtifactShape(ResponseText(e).s)>> ELSE <<>>)
    \o (IF PastCompleted(e) THEN <<CompletedShape>> ELSE <<>>)
    \o (IF PastFailed(e) THEN <<FailedShape(exc[e])>> ELSE <<>>)

C16_AsAlone ==
    \A e \in Execs :
        /\ Shapes(e) = AloneShapes(e)
        /\ \A i \in DOMAIN events[e] :
               /\ events[e][i].contextId = "ctx-" \o e
               /\ events[e][i].taskId = (IF task[e].isNew THEN "new-" ELSE "task-") \o e
        /\ \A i \in DOMAIN posts[e] :
               /\ posts[e][i].session_id = "ctx-" \o e
               /\ posts[e][i].url = langflow_url

\* a step in which execution e does not move leaves everything of e as it was,
\* and no step writes the built orchestrator
C16_Frame ==
    /\ \A e \in Execs :
           pc'[e] = pc[e] =>
               /\ task'[e] = task[e]
               /\ events'[e] = events[e]
               /\ posts'[e] = posts[e]
               /\ response'[e] = response[e]
               /\ exc'[e] = exc[e]
               /\ raisedAt'[e] = raisedAt[e]
               /\ message'[e] = message[e]
               /\ query'[e] = query[e]
    /\ inst = "built" => UNCHANGED selfVars

C16_Independent == []C16_AsAlone /\ [][C16_Frame]_vars

\* two executions under way at once, each with events of its own published
C16_Witness ==
    /\ pc["r1"] = "pub_completed"
    /\ pc["r2"] = "pub_artifact"
    /\ Len(events["r1"]) = 3
    /\ Len(events["r2"]) = 1
    /\ task["r1"].isNew /\ ~task["r2"].isNew

----------------------------------------------------------------------------
(* C17: no execution publishes both an artifact event and a failed terminal *)
(* event, whatever step raised: a run that ends failed has no artifact      *)

HasFailed(e) ==
    \E i \in DOMAIN events[e] :
        events[e][i].kind = "status" /\ events[e][i].state = "failed"

\* C17 as stated
C17_NoArtifactWithFailed ==
    \A e \in Execs : ~(HasArtifact(e) /\ HasFailed(e))

----------------------------------------------------------------------------
(* C18: the terminal event is the last event of its execution: nothing is   *)
(* published after an event with final=true, and every non-final event of   *)
(* the run precedes the final one in the queue                              *)

C18_TerminalIsLast ==
    \A e \in Execs : \A i \in DOMAIN events[e] :
        events[e][i].final => i = Len(events[e])

\* a finished run of several events whose last one is final
C18_Witness ==
    \E e \in Execs :
        /\ Ended(e)
        /\ Len(events[e]) >= 3
        /\ events[e][Len(events[e])].final
        /\ \A i \in 1..(Len(events[e]) - 1) : ~events[e][i].final

----------------------------------------------------------------------------
(* C19: with a message and no current task, execute() creates a task and    *)
(* publishes the Task object as the first event, before the working event,  *)
(* and every later event carries the new task's id and context id; with a   *)
(* current task no Task object is published and its ids are used            *)

C19_TaskObjectFirst ==
    \A e \in Execs :
        /\ (task[e].isNew /\ pc[e] \notin {"idle", "pub_task"}
                /\ "pub_task" \notin raisedAt[e]) =>
              /\ events[e] # <<>>
              /\ events[e][1] = [kind |-> "task", state |-> "submitted",
                                 final |-> FALSE, taskId |-> "new-" \o e,
                                 contextId |-> "ctx-" \o e, text |-> ""]
              /\ \A i \in 2..Len(events[e]) :
                     /\ events[e][i].kind # "task"
                     /\ events[e][i].taskId = "new-" \o e
                     /\ events[e][i].contextId = "ctx-" \o e
        /\ (task[e].isNew /\ pc[e] \in {"idle", "pub_task"}) => events[e] = <<>>
        /\ ~task[e].isNew =>
              \A i \in DOMAIN events[e] :
                  /\ events[e][i].kind # "task"
                  /\ events[e][i].taskId = "task-" \o e
                  /\ events[e][i].contextId = "ctx-" \o e

\* one finished run that created its task, one that had a current task
C19_Witness ==
    /\ pc["r1"] = "returned" /\ task["r1"].isNew
    /\ Len(events["r1"]) = 4
    /\ events["r1"][1].kind = "task"
    /\ events["r1"][2].state = "working"
    /\ pc["r2"] = "returned" /\ task["r2"] = ExistingTask("r2")
    /\ Len(events["r2"]) = 3
    /\ events["r2"][1].state = "working"

----------------------------------------------------------------------------
(* C20: every constructed orchestrator holds a non-empty langflow_url, for  *)
(* every input the constructor accepts (strings of '/' alone and strings    *)
(* ending in '/' included), and execute(), cancel() and _call_langflow()    *)
(* leave it unchanged                                                       *)

\* C20 as stated
C20_StoredUrlNonEmpty ==
    inst = "built" =>
        /\ langflow_url.t = "str"
        /\ Len(langflow_url.chars) > 0

============================================================================
